---- MODULE Spec2Model ----
(***************************************************************************)
(* Model of the new-mail notification core of emailbox-mcp-server:         *)
(*   shared/handlers.go  EmailNotificationChecker (Start, Stop, the tick   *)
(*                       loop, checkForNewEmails) and ClientTracker        *)
(*   shared/imap.go      IMAPClient.GetLatestUID, GetEmailsSinceUID        *)
(* Callers are goroutines invoking the tracker hooks or Start/Stop; every  *)
(* Start that initialises the checker spawns one tick-loop goroutine.      *)
(* The IMAP mailbox is the environment: messages arrive with increasing    *)
(* UIDs and may be expunged by other mail clients.                         *)
(* Spec is the whole core in both deployment modes. SpecDirect is the      *)
(* checker under concurrent direct calls; SpecPoll, SpecRestart and        *)
(* SpecTracker drive it with calls made one after the other and keep a     *)
(* history of what happened (obs).                                         *)
(* SpecStop adds main's shutdown and the fairness of the loop goroutine.   *)
(***************************************************************************)
EXTENDS Integers, Sequences, FiniteSets, Bags, TLC

\* ---- bounds of the model ----
NumCallers == 2
NumUIDs == 2
MaxLoops == 2
FirstUID == 9
MaxEvents == 3

\* the tick-loop goroutines that can exist at the same time
Runs == 1..MaxLoops
MaxUID == FirstUID + NumUIDs - 1
UIDs == FirstUID..MaxUID
NoOne == 0

\* the context main hands to the checker, parent of the context of every tick loop
ParentCtx == 0 - 1

VARIABLES
    mode,         \* "multi": ClientTracker drives the checker; "direct": Start/Stop are called directly
    broadcaster,  \* c.broadcaster != nil
    clientCount,  \* ClientTracker.clientCount
    trackerMu,    \* ClientTracker.mu is locked
    connected,    \* number of sessions whose OnClientConnected returned and that did not unregister
    calls,        \* the calls in flight, a bag (goroutines are interchangeable): position, the
                  \* local `count` of the tracker call (0 once decided), and whether the call
                  \* came through the tracker and holds t.mu
    startUID,     \* the local `lastUID` of the Start holding cancelMu, and whether GetLatestUID succeeded
    running,      \* c.running
    cancelFunc,   \* c.cancelFunc: NoOne when nil, else the loop whose context it cancels
    cancelMu,     \* c.cancelMu is locked
    cancelled,    \* the contexts that are Done: those of the loops, and ParentCtx
    lastUID,      \* c.lastUID, the watermark
    loops,        \* the tick-loop goroutines: position, the locals of
                  \* checkForNewEmails; history: snap/raw (INBOX and the fetched UIDs of the
                  \* cycle), startOk/startW (the result of GetLatestUID the run began with)
    mailbox,      \* UIDs of the messages in INBOX
    uidNext,      \* UIDNEXT of INBOX
    sent,         \* what the tick loops that have not returned handed to
                  \* SendNotificationToAllClients, in order
    lastCall,     \* history: "Start" once a Start call began after the last Stop took effect,
                  \* "StartNoOp" once such a call returned early
    obs           \* history kept by the observing specifications only (see Observed)

vars == <<mode, broadcaster, clientCount, trackerMu, connected, calls, startUID,
          running, cancelFunc, cancelMu, cancelled, lastUID, loops,
          mailbox, uidNext, sent, lastCall, obs>>

trackerVars == <<clientCount, trackerMu, connected>>
checkerVars == <<running, cancelFunc, cancelMu, cancelled, lastUID, loops>>
mailVars == <<mailbox, uidNext>>
constVars == <<mode, broadcaster>>

\* ---- helpers ----
Max(S) == CHOOSE x \in S : \A y \in S : y <= x

\* all orders in which the members of S can be listed
Perms(S) == {s \in [1..Cardinality(S) -> S] : \A i, j \in 1..Cardinality(S) : s[i] = s[j] => i = j}

Range(s) == {s[i] : i \in 1..Len(s)}

\* ---- strconv.FormatUint(uid, 10) and fmt.Sscanf(id, "%d", &uid) ----
Digits == <<"0", "1", "2", "3", "4", "5", "6", "7", "8", "9">>

RECURSIVE FormatUint(_)
FormatUint(n) ==
    IF n < 10 THEN <<Digits[n + 1]>>
    ELSE Append(FormatUint(n \div 10), Digits[(n % 10) + 1])

DigitVal(ch) == CHOOSE d \in 0..9 : Digits[d + 1] = ch

RECURSIVE SscanfUint(_)
SscanfUint(s) ==
    IF Len(s) = 0 THEN 0
    ELSE 10 * SscanfUint(SubSeq(s, 1, Len(s) - 1)) + DigitVal(s[Len(s)])

\* ---- the IMAP server (environment of imap.go) ----
\* the messages of a mailbox by sequence number: ascending UID
RECURSIVE SortedSeq(_)
SortedSeq(S) == IF S = {} THEN <<>> ELSE Append(SortedSeq(S \ {Max(S)}), Max(S))

\* FETCH of one sequence number
SeqFetch(mbox, n) == IF n \in 1..Cardinality(mbox) THEN <<SortedSeq(mbox)[n]>> ELSE <<>>

\* UID FETCH lo:* : `*` is the highest UID present, and a range is taken between
\* its two ends in either order, so the last message is always part of it
UIDFetchRange(mbox, lo) ==
    IF mbox = {} THEN {}
    ELSE {u \in mbox : u >= lo} \cup {Max(mbox)}

\* the envelope the server holds for a message (strings are sequences of characters)
Envelope(uid) == [From |-> <<"a", "@", "b">>, Subject |-> <<"h", "i">>, Date |-> uid]

\* the body the server holds for a message
MessageBody(uid) == <<"m", "a", "i", "l">>

\* ---- imap.go ----
\* GetEmailsSinceUID: the Email built for a fetched message
Email(uid) == [ID |-> FormatUint(uid), From |-> Envelope(uid).From,
               Subject |-> Envelope(uid).Subject, Date |-> Envelope(uid).Date]

\* GetEmailPreview on a body without white space
GetEmailPreview(body, maxLen) ==
    IF Len(body) <= maxLen THEN body ELSE SubSeq(body, 1, maxLen) \o <<".", ".", ".">>

\* (a GetLatestUID that reads the first message of the mailbox instead of the last)
GetLatestUIDFirstMessage(mbox) ==
    LET numMessages == Cardinality(mbox) IN
    IF numMessages = 0 THEN 0
    ELSE LET messages == SeqFetch(mbox, 1) IN
         IF Len(messages) = 0 THEN 0 ELSE messages[1]

\* IMAPClient.GetLatestUID on a mailbox that answered
GetLatestUID(mbox) ==
    LET numMessages == Cardinality(mbox) IN
    IF numMessages = 0 THEN 0
    ELSE LET messages == SeqFetch(mbox, numMessages) IN
         IF Len(messages) = 0 THEN 0 ELSE messages[1]

\* (the loop without its `if uint32(msg.UID) <= sinceUID { continue }`)
FilterSinceNoSkip(messages, sinceUID) ==
    [i \in 1..Len(messages) |-> Email(messages[i])]

\* the loop of GetEmailsSinceUID over the fetched messages
FilterSince(messages, sinceUID) ==
    LET Newer(u) == ~(u <= sinceUID)
        kept == SelectSeq(messages, Newer)
    IN [i \in 1..Len(kept) |-> Email(kept[i])]

\* IMAPClient.GetEmailsSinceUID on a mailbox that answered: next is UIDNEXT,
\* messages what UID FETCH sinceUID+1:* returned
GetEmailsSinceUID(next, messages, sinceUID) ==
    IF next <= sinceUID + 1 THEN <<>>
    ELSE FilterSince(messages, sinceUID)

\* ---- handlers.go: the watermark update of checkForNewEmails ----
\* (an update that never advances, and one without the `if emailUID > c.lastUID`)
NewLastUIDStuck(cur, emailUID) == cur

NewLastUIDUnguarded(cur, emailUID) == emailUID

NewLastUID(cur, emailUID) == IF emailUID > cur THEN emailUID ELSE cur

\* ---- handlers.go: what checkForNewEmails hands to SendNotificationToAllClients ----
\* email.Date.Format(time.RFC3339)
FormatRFC3339(date) == <<"RFC3339", date>>

\* (a preview that ignores the error of GetEmailContents)
PreviewIgnoringError(email, contentsErr) ==
    GetEmailPreview(MessageBody(SscanfUint(email.ID)), 100)

\* preview := ""; if err == nil { preview = GetEmailPreview(detail.Body, 100) }
Preview(email, contentsErr) ==
    IF contentsErr THEN <<>> ELSE GetEmailPreview(MessageBody(SscanfUint(email.ID)), 100)

Notification(email, preview) ==
    [method |-> "new_email",
     params |-> [title |-> <<"New Email Received. From: ", email.From, ", Subject: ", email.Subject>>,
                 email_id |-> email.ID,
                 from |-> email.From,
                 subject |-> email.Subject,
                 received_at |-> FormatRFC3339(email.Date),
                 preview |-> preview]]

\* ---- state ----
NoLoop == [pc |-> "none", since |-> 0, snap |-> {}, raw |-> {}, newEmails |-> <<>>,
           idx |-> 0, startOk |-> FALSE, startW |-> 0]

\* a tick loop that has returned
DeadLoop == [NoLoop EXCEPT !.pc = "dead"]

NoStart == [uid |-> 0, ok |-> FALSE]

\* the goroutine slots no tick loop occupies
FreeLoops == {r \in Runs : loops[r].pc \in {"none", "dead"}}

\* a loop goroutine exists and has not returned
Alive(r) == loops[r].pc \notin {"none", "dead"}

\* the tick loops that are running: alive, and their context not cancelled
RunningLoops == {r \in Runs : Alive(r) /\ r \notin cancelled}

\* the tick loops that were told to stop and have not returned yet
StoppingLoops == {r \in Runs : Alive(r) /\ r \in cancelled}

\* ---- the calls in flight ----
Call(pc, count, viaTracker) == [pc |-> pc, count |-> count, viaTracker |-> viaTracker]

InFlight == BagToSet(calls)

Begun(k) == calls (+) SetToBag({k})

Returned(k) == calls (-) SetToBag({k})

Moved(k, pc) == Returned(k) (+) SetToBag({[k EXCEPT !.pc = pc]})

AllIdle == calls = EmptyBag

\* ---- history of the observing specifications ----
\* events: the tracker events delivered so far; stopCalls: the Stop() calls made;
\* lastStop: whether the last Stop() cancelled a loop or found none ("noop");
\* failedAt: the watermark of the last poll cycle of the run whose query failed;
\* missed: the messages that arrived while the poller was idle (no tick loop, no
\* Start() past its mailbox query)
NoFail == 0 - 1

NoObs == [events |-> <<>>, stopCalls |-> 0, lastStop |-> "none", failedAt |-> NoFail,
          missed |-> {}]

Init ==
    /\ mode \in {"multi", "direct"}
    /\ broadcaster \in BOOLEAN
    /\ clientCount = 0
    /\ trackerMu = FALSE
    /\ connected = 0
    /\ calls = EmptyBag
    /\ startUID = NoStart
    /\ running = FALSE
    /\ cancelFunc = NoOne
    /\ cancelMu = FALSE
    /\ cancelled = {}
    /\ lastUID = 0
    /\ loops = [r \in Runs |-> NoLoop]
    /\ mailbox = {}
    /\ uidNext = FirstUID
    /\ sent = <<>>
    /\ lastCall = "none"
    /\ obs = NoObs

\* ---- ClientTracker ----
\* a session registers. OnClientConnected: count := t.clientCount.Add(1), before t.mu is taken
OnClientConnected ==
    /\ mode = "multi"
    /\ connected + BagCardinality(calls) < NumCallers
    /\ clientCount' = clientCount + 1
    /\ calls' = Begun(Call("conn_lock", clientCount + 1, FALSE))
    /\ UNCHANGED <<trackerMu, connected, startUID, checkerVars, mailVars, constVars, sent, lastCall>>

\* OnClientConnected: t.mu.Lock(); if count == 1 { t.checker.Start() }
ConnectedLocked(k) ==
    /\ k.pc = "conn_lock"
    /\ ~trackerMu
    /\ IF k.count = 1
       THEN /\ trackerMu' = TRUE
            /\ calls' = Returned(k) (+) SetToBag({Call("start_check", 0, TRUE)})
            /\ lastCall' = "Start"
            /\ UNCHANGED connected
       ELSE /\ calls' = Returned(k)
            /\ connected' = connected + 1
            /\ UNCHANGED <<trackerMu, lastCall>>
    /\ UNCHANGED <<clientCount, startUID, checkerVars, mailVars, constVars, sent>>

\* a connected session unregisters. OnClientDisconnected: count := t.clientCount.Add(-1),
\* before t.mu is taken
OnClientDisconnected ==
    /\ mode = "multi"
    /\ connected' = IF connected > 0 THEN connected - 1 ELSE 0
    /\ clientCount' = clientCount - 1
    /\ calls' = Begun(Call("disc_lock", clientCount - 1, FALSE))
    /\ UNCHANGED <<trackerMu, startUID, checkerVars, mailVars, constVars, sent, lastCall>>

\* (a tracker that stops the checker whenever the count is not positive)
DisconnectedLockedNotPositive(k) ==
    /\ k.pc = "disc_lock"
    /\ ~trackerMu
    /\ IF k.count <= 0
       THEN /\ trackerMu' = TRUE
            /\ calls' = Returned(k) (+) SetToBag({Call("stop", 0, TRUE)})
       ELSE /\ calls' = Returned(k)
            /\ UNCHANGED trackerMu
    /\ UNCHANGED <<clientCount, connected, startUID, checkerVars, mailVars, constVars, sent, lastCall>>

\* OnClientDisconnected: t.mu.Lock(); if count == 0 { t.checker.Stop() }
DisconnectedLocked(k) ==
    /\ k.pc = "disc_lock"
    /\ ~trackerMu
    /\ IF k.count = 0
       THEN /\ trackerMu' = TRUE
            /\ calls' = Returned(k) (+) SetToBag({Call("stop", 0, TRUE)})
       ELSE /\ calls' = Returned(k)
            /\ UNCHANGED trackerMu
    /\ UNCHANGED <<clientCount, connected, startUID, checkerVars, mailVars, constVars, sent, lastCall>>

\* ---- EmailNotificationChecker.Start / Stop called directly ----
\* (StartEmailNotificationChecker at process start, or any other owner of the checker)
StartCall ==
    /\ mode = "direct"
    /\ BagCardinality(calls) < NumCallers
    /\ calls' = Begun(Call("start_check", 0, FALSE))
    /\ lastCall' = "Start"
    /\ UNCHANGED <<trackerVars, startUID, checkerVars, mailVars, constVars, sent>>

StopCall ==
    /\ mode = "direct"
    /\ BagCardinality(calls) < NumCallers
    /\ calls' = Begun(Call("stop", 0, FALSE))
    /\ UNCHANGED <<trackerVars, startUID, checkerVars, mailVars, constVars, sent, lastCall>>

\* Start returns to OnClientConnected, which returns with its deferred t.mu.Unlock():
\* the session is connected
StartReturns(k) ==
    /\ calls' = Returned(k)
    /\ trackerMu' = IF k.viaTracker THEN FALSE ELSE trackerMu
    /\ connected' = IF k.viaTracker THEN connected + 1 ELSE connected

\* (a Start without the broadcaster check)
StartCheckNoBroadcaster(k) ==
    /\ k.pc = "start_check"
    /\ IF running
       THEN /\ StartReturns(k)
            /\ lastCall' = IF lastCall = "Start" THEN "StartNoOp" ELSE lastCall
       ELSE /\ calls' = Moved(k, "start_lock")
            /\ UNCHANGED <<trackerMu, connected, lastCall>>
    /\ UNCHANGED <<clientCount, startUID, checkerVars, mailVars, constVars, sent>>

\* Start: if c.broadcaster == nil return; if c.running.Load() return
StartCheck(k) ==
    /\ k.pc = "start_check"
    /\ IF ~broadcaster \/ running
       THEN /\ StartReturns(k)
            /\ lastCall' = IF lastCall = "Start" THEN "StartNoOp" ELSE lastCall
       ELSE /\ calls' = Moved(k, "start_lock")
            /\ UNCHANGED <<trackerMu, connected, lastCall>>
    /\ UNCHANGED <<clientCount, startUID, checkerVars, mailVars, constVars, sent>>

\* (a Start without the double-check)
StartLockedNoRecheck(k) ==
    /\ k.pc = "start_lock"
    /\ ~cancelMu
    /\ cancelMu' = TRUE
    /\ calls' = Moved(k, "start_getuid")
    /\ UNCHANGED <<trackerVars, startUID, running, cancelFunc, cancelled, lastUID, loops,
                   mailVars, constVars, sent, lastCall>>

\* Start: c.cancelMu.Lock(); if c.running.Load() return (double-check)
StartLocked(k) ==
    /\ k.pc = "start_lock"
    /\ ~cancelMu
    /\ IF running
       THEN /\ StartReturns(k)
            /\ lastCall' = IF lastCall = "Start" THEN "StartNoOp" ELSE lastCall
            /\ UNCHANGED cancelMu
       ELSE /\ cancelMu' = TRUE
            /\ calls' = Moved(k, "start_getuid")
            /\ UNCHANGED <<trackerMu, connected, lastCall>>
    /\ UNCHANGED <<clientCount, startUID, running, cancelFunc, cancelled, lastUID, loops,
                   mailVars, constVars, sent>>

\* (a Start that keeps what the failed query returned)
StartGetLatestUIDKeepsResult(k) ==
    /\ k.pc = "start_getuid"
    /\ \E err \in BOOLEAN :
         startUID' = [uid |-> GetLatestUID(mailbox), ok |-> ~err]
    /\ calls' = Moved(k, "start_spawn")
    /\ UNCHANGED <<trackerVars, checkerVars, mailVars, constVars, sent, lastCall>>

\* Start: lastUID, err := c.imapClient.GetLatestUID(); if err != nil { lastUID = 0 }
StartGetLatestUID(k) ==
    /\ k.pc = "start_getuid"
    /\ \E err \in BOOLEAN :
         startUID' = [uid |-> IF err THEN 0 ELSE GetLatestUID(mailbox), ok |-> ~err]
    /\ calls' = Moved(k, "start_spawn")
    /\ UNCHANGED <<trackerVars, checkerVars, mailVars, constVars, sent, lastCall>>

\* (a Start that resumes from the watermark the checker was left with)
StartSpawnResume(k) ==
    /\ k.pc = "start_spawn"
    /\ FreeLoops # {}
    /\ LET r == CHOOSE x \in FreeLoops : \A y \in FreeLoops : x <= y IN
         /\ cancelFunc' = r
         /\ loops' = [loops EXCEPT ![r] =
                        [NoLoop EXCEPT !.pc = "select", !.startOk = startUID.ok,
                                       !.startW = startUID.uid]]
         /\ cancelled' = IF ParentCtx \in cancelled THEN cancelled \cup {r} ELSE cancelled
    /\ lastUID' = lastUID
    /\ running' = TRUE
    /\ cancelMu' = FALSE
    /\ startUID' = NoStart
    /\ StartReturns(k)
    /\ UNCHANGED <<clientCount, mailVars, constVars, sent, lastCall>>

\* Start: c.lastUID = lastUID (under c.mu); ctx, cancel := context.WithCancel(parentCtx),
\* Done from the start when the parent is; c.cancelFunc = cancel; c.running.Store(true);
\* go func() {...}(); the deferred c.cancelMu.Unlock()
StartSpawn(k) ==
    /\ k.pc = "start_spawn"
    /\ FreeLoops # {}
    /\ LET r == CHOOSE x \in FreeLoops : \A y \in FreeLoops : x <= y IN
         /\ cancelFunc' = r
         /\ loops' = [loops EXCEPT ![r] =
                        [NoLoop EXCEPT !.pc = "select", !.startOk = startUID.ok,
                                       !.startW = startUID.uid]]
         /\ cancelled' = IF ParentCtx \in cancelled THEN cancelled \cup {r} ELSE cancelled
    /\ lastUID' = startUID.uid
    /\ running' = TRUE
    /\ cancelMu' = FALSE
    /\ startUID' = NoStart
    /\ StartReturns(k)
    /\ UNCHANGED <<clientCount, mailVars, constVars, sent, lastCall>>

\* (a Stop that clears c.running itself instead of leaving it to the loop)
StopClearsRunning(k) ==
    /\ k.pc = "stop"
    /\ ~cancelMu
    /\ IF cancelFunc # NoOne
       THEN /\ cancelled' = cancelled \cup {cancelFunc}
            /\ cancelFunc' = NoOne
       ELSE UNCHANGED <<cancelled, cancelFunc>>
    /\ running' = FALSE
    /\ lastCall' = "Stop"
    /\ calls' = Returned(k)
    /\ trackerMu' = IF k.viaTracker THEN FALSE ELSE trackerMu
    /\ UNCHANGED <<clientCount, connected, startUID, cancelMu, lastUID, loops,
                   mailVars, constVars, sent>>

\* (a Stop without the `if c.cancelFunc != nil`)
StopUnchecked(k) ==
    /\ k.pc = "stop"
    /\ ~cancelMu
    /\ cancelled' = cancelled \cup {cancelFunc}
    /\ cancelFunc' = NoOne
    /\ lastCall' = "Stop"
    /\ calls' = Returned(k)
    /\ trackerMu' = IF k.viaTracker THEN FALSE ELSE trackerMu
    /\ UNCHANGED <<clientCount, connected, startUID, running, cancelMu, lastUID, loops,
                   mailVars, constVars, sent>>

\* Stop: c.cancelMu.Lock(); if c.cancelFunc != nil { c.cancelFunc(); c.cancelFunc = nil };
\* the deferred Unlock; and, called by the tracker, its deferred t.mu.Unlock()
Stop(k) ==
    /\ k.pc = "stop"
    /\ ~cancelMu
    /\ IF cancelFunc # NoOne
       THEN /\ cancelled' = cancelled \cup {cancelFunc}
            /\ cancelFunc' = NoOne
       ELSE UNCHANGED <<cancelled, cancelFunc>>
    /\ lastCall' = "Stop"
    /\ calls' = Returned(k)
    /\ trackerMu' = IF k.viaTracker THEN FALSE ELSE trackerMu
    /\ UNCHANGED <<clientCount, connected, startUID, running, cancelMu, lastUID, loops,
                   mailVars, constVars, sent>>

\* ---- the tick loop goroutine of Start ----
loopFrame == <<trackerVars, calls, startUID, cancelFunc, cancelMu, constVars, lastCall>>

\* select: case <-ctx.Done(): return
SelectDone(r) ==
    /\ loops[r].pc = "select"
    /\ r \in cancelled
    /\ loops' = [loops EXCEPT ![r].pc = "exit"]
    /\ UNCHANGED <<loopFrame, cancelled, running, lastUID, mailVars, sent>>

\* select: case <-ticker.C: c.checkForNewEmails(), which begins with
\* c.mu.Lock(); currentLastUID := c.lastUID; c.mu.Unlock().
\* The ticker has delivered a tick into ticker.C by the time of the select; select picks
\* any ready case, so this one may be taken when ctx is Done as well.
SelectTick(r) ==
    /\ loops[r].pc = "select"
    /\ loops' = [loops EXCEPT ![r].pc = "fetch", ![r].since = lastUID]
    /\ UNCHANGED <<loopFrame, cancelled, running, lastUID, mailVars, sent>>

\* (a loop that returns without its deferred c.running.Store(false))
LoopExitKeepsRunning(r) ==
    /\ loops[r].pc = "exit"
    /\ loops' = [loops EXCEPT ![r] = DeadLoop]
    /\ cancelled' = cancelled \ {r}
    /\ sent' = LET OfOthers(e) == e.run # r IN SelectSeq(sent, OfOthers)
    /\ UNCHANGED <<loopFrame, running, lastUID, mailVars>>

\* deferred c.running.Store(false) and ticker.Stop(); the goroutine is gone, and its
\* context and the record of what it notified go with it
LoopExit(r) ==
    /\ loops[r].pc = "exit"
    /\ running' = FALSE
    /\ loops' = [loops EXCEPT ![r] = DeadLoop]
    /\ cancelled' = cancelled \ {r}
    /\ sent' = LET OfOthers(e) == e.run # r IN SelectSeq(sent, OfOthers)
    /\ UNCHANGED <<loopFrame, lastUID, mailVars>>

\* (a cycle that on a failed query moves the watermark to the last UID the server assigned)
CheckFetchErrorSkips(r) ==
    /\ loops[r].pc = "fetch"
    /\ \/ /\ loops' = [loops EXCEPT ![r].pc = "select", ![r].since = 0]
          /\ lastUID' = uidNext - 1
       \/ /\ \E messages \in Perms(UIDFetchRange(mailbox, loops[r].since + 1)) :
               LET newEmails == GetEmailsSinceUID(uidNext, messages, loops[r].since) IN
               loops' = [loops EXCEPT ![r].snap = mailbox,
                                      ![r].raw = IF uidNext <= loops[r].since + 1
                                                 THEN {} ELSE Range(messages),
                                      ![r].newEmails = newEmails,
                                      ![r].idx = 1,
                                      ![r].pc = IF Len(newEmails) = 0 THEN "done" ELSE "update"]
          /\ UNCHANGED lastUID
    /\ UNCHANGED <<loopFrame, cancelled, running, mailVars, sent>>

\* checkForNewEmails: newEmails, err := c.imapClient.GetEmailsSinceUID(currentLastUID)
CheckFetch(r) ==
    /\ loops[r].pc = "fetch"
    /\ \/ \* err != nil: log and return
          loops' = [loops EXCEPT ![r].pc = "select", ![r].since = 0]
       \/ \E messages \in Perms(UIDFetchRange(mailbox, loops[r].since + 1)) :
            LET newEmails == GetEmailsSinceUID(uidNext, messages, loops[r].since) IN
            loops' = [loops EXCEPT ![r].snap = mailbox,
                                   ![r].raw = IF uidNext <= loops[r].since + 1
                                              THEN {} ELSE Range(messages),
                                   ![r].newEmails = newEmails,
                                   ![r].idx = 1,
                                   ![r].pc = IF Len(newEmails) = 0 THEN "done" ELSE "update"]
    /\ UNCHANGED <<loopFrame, cancelled, running, lastUID, mailVars, sent>>

\* checkForNewEmails, per email: Sscanf(email.ID); if emailUID > c.lastUID { c.lastUID = emailUID }
CheckUpdate(r) ==
    /\ loops[r].pc = "update"
    /\ lastUID' = NewLastUID(lastUID, SscanfUint(loops[r].newEmails[loops[r].idx].ID))
    /\ loops' = [loops EXCEPT ![r].pc = "notify"]
    /\ UNCHANGED <<loopFrame, cancelled, running, mailVars, sent>>

\* checkForNewEmails, per email: detail, err := c.imapClient.GetEmailContents(email.ID);
\* c.broadcaster.SendNotificationToAllClients("new_email", ...).
\* sent records the call, with the run and the watermark of its cycle and whether
\* GetEmailContents failed as history
CheckNotify(r, contentsErr) ==
    /\ loops[r].pc = "notify"
    /\ LET email == loops[r].newEmails[loops[r].idx]
           call == Notification(email, Preview(email, contentsErr))
       IN sent' = Append(sent, [run |-> r, since |-> loops[r].since, bodyErr |-> contentsErr,
                                method |-> call.method, params |-> call.params])
    /\ loops' = [loops EXCEPT ![r].idx = loops[r].idx + 1,
                              ![r].pc = IF loops[r].idx = Len(loops[r].newEmails)
                                        THEN "done" ELSE "update"]
    /\ UNCHANGED <<loopFrame, cancelled, running, lastUID, mailVars>>

\* checkForNewEmails returns after the last email; back to the select
CheckReturn(r) ==
    /\ loops[r].pc = "done"
    /\ loops' = [loops EXCEPT ![r].pc = "select", ![r].since = 0, ![r].snap = {},
                              ![r].raw = {}, ![r].newEmails = <<>>, ![r].idx = 0]
    /\ UNCHANGED <<loopFrame, cancelled, running, lastUID, mailVars, sent>>

\* ---- main: shutdown ----
\* cancel() of the context handed to StartEmailNotificationChecker: the context of
\* every tick loop is Done with it
ParentCancel ==
    /\ ParentCtx \notin cancelled
    /\ cancelled' = cancelled \cup {ParentCtx} \cup {r \in Runs : Alive(r)}
    /\ UNCHANGED <<trackerVars, calls, startUID, running, cancelFunc, cancelMu, lastUID, loops,
                   mailVars, constVars, sent, lastCall>>

\* ---- the mailbox ----
\* the server stores a new message under the next UID
Arrive ==
    /\ uidNext <= MaxUID
    /\ mailbox' = mailbox \cup {uidNext}
    /\ uidNext' = uidNext + 1
    /\ UNCHANGED <<trackerVars, calls, startUID, checkerVars, constVars, sent, lastCall>>

\* another mail client expunges a message
Expunge(u) ==
    /\ u \in mailbox
    /\ mailbox' = mailbox \ {u}
    /\ UNCHANGED <<uidNext, trackerVars, calls, startUID, checkerVars, constVars, sent, lastCall>>

\* ---- the specification of the whole core ----
\* Sessions unregister only after they registered, the body of a new message can be
\* fetched, and no history is kept.
Unobserved == UNCHANGED obs

Next ==
    \/ OnClientConnected /\ Unobserved
    \/ \E k \in InFlight : ConnectedLocked(k) /\ Unobserved
    \/ connected > 0 /\ OnClientDisconnected /\ Unobserved
    \/ \E k \in InFlight : DisconnectedLocked(k) /\ Unobserved
    \/ StartCall /\ Unobserved
    \/ StopCall /\ Unobserved
    \/ \E k \in InFlight : StartCheck(k) /\ Unobserved
    \/ \E k \in InFlight : StartLocked(k) /\ Unobserved
    \/ \E k \in InFlight : StartGetLatestUID(k) /\ Unobserved
    \/ \E k \in InFlight : StartSpawn(k) /\ Unobserved
    \/ \E k \in InFlight : Stop(k) /\ Unobserved
    \/ \E r \in Runs : SelectDone(r) /\ Unobserved
    \/ \E r \in Runs : SelectTick(r) /\ Unobserved
    \/ \E r \in Runs : LoopExit(r) /\ Unobserved
    \/ \E r \in Runs : CheckFetch(r) /\ Unobserved
    \/ \E r \in Runs : CheckUpdate(r) /\ Unobserved
    \/ \E r \in Runs : CheckNotify(r, FALSE) /\ Unobserved
    \/ \E r \in Runs : CheckReturn(r) /\ Unobserved
    \/ Arrive /\ Unobserved
    \/ \E u \in UIDs : Expunge(u) /\ Unobserved

Spec == Init /\ [][Next]_vars

\* ---- the checker under direct calls ----
\* Start() and Stop() are called by up to NumCallers goroutines at a time. The tracker
\* calls Start() and Stop() one at a time, under t.mu, so all the checker does in
\* multi-client mode it does here as well.
InitDirect == Init /\ mode = "direct" /\ broadcaster

NextDirect ==
    \/ StartCall /\ Unobserved
    \/ StopCall /\ Unobserved
    \/ \E k \in InFlight : StartCheck(k) /\ Unobserved
    \/ \E k \in InFlight : StartLocked(k) /\ Unobserved
    \/ \E k \in InFlight : StartGetLatestUID(k) /\ Unobserved
    \/ \E k \in InFlight : StartSpawn(k) /\ Unobserved
    \/ \E k \in InFlight : Stop(k) /\ Unobserved
    \/ \E r \in Runs : SelectDone(r) /\ Unobserved
    \/ \E r \in Runs : SelectTick(r) /\ Unobserved
    \/ \E r \in Runs : LoopExit(r) /\ Unobserved
    \/ \E r \in Runs : CheckFetch(r) /\ Unobserved
    \/ \E r \in Runs : CheckUpdate(r) /\ Unobserved
    \/ \E r \in Runs : CheckNotify(r, FALSE) /\ Unobserved
    \/ \E r \in Runs : CheckReturn(r) /\ Unobserved
    \/ Arrive /\ Unobserved
    \/ \E u \in UIDs : Expunge(u) /\ Unobserved

SpecDirect == InitDirect /\ [][NextDirect]_vars

\* ---- the tracker under sequential session events ----
\* The hooks are called one after the other, at most MaxEvents times, and an unregister
\* hook may arrive for a session that never registered. The events and the Stop()
\* calls are recorded.
InitTracker == Init /\ mode = "multi" /\ broadcaster

Logged(event) == obs' = [obs EXCEPT !.events = Append(@, event)]

StopCounted ==
    obs' = [obs EXCEPT !.stopCalls = @ + 1,
                       !.lastStop = IF cancelFunc # NoOne THEN "cancelled" ELSE "noop"]

NextEvent == AllIdle /\ Len(obs.events) < MaxEvents

NextTracker ==
    \/ NextEvent /\ OnClientConnected /\ Logged("connect")
    \/ \E k \in InFlight : ConnectedLocked(k) /\ Unobserved
    \/ NextEvent /\ OnClientDisconnected /\ Logged("disconnect")
    \/ \E k \in InFlight : DisconnectedLocked(k) /\ Unobserved
    \/ \E k \in InFlight : StartCheck(k) /\ Unobserved
    \/ \E k \in InFlight : StartLocked(k) /\ Unobserved
    \/ \E k \in InFlight : StartGetLatestUID(k) /\ Unobserved
    \/ \E k \in InFlight : StartSpawn(k) /\ Unobserved
    \/ \E k \in InFlight : Stop(k) /\ StopCounted
    \/ \E r \in Runs : SelectDone(r) /\ Unobserved
    \/ \E r \in Runs : SelectTick(r) /\ Unobserved
    \/ \E r \in Runs : LoopExit(r) /\ Unobserved
    \/ \E r \in Runs : CheckFetch(r) /\ Unobserved
    \/ \E r \in Runs : CheckUpdate(r) /\ Unobserved
    \/ \E r \in Runs : CheckNotify(r, FALSE) /\ Unobserved
    \/ \E r \in Runs : CheckReturn(r) /\ Unobserved
    \/ Arrive /\ Unobserved
    \/ \E u \in UIDs : Expunge(u) /\ Unobserved

SpecTracker == InitTracker /\ [][NextTracker]_vars

\* ---- the poller driven directly: its poll cycles ----
\* Start() and Stop() are called one after the other while the tick loop runs, the
\* body fetch of a new message may fail, and the poll cycles whose query failed are
\* recorded.
InitPoll == Init /\ mode = "direct" /\ broadcaster

FetchObserved(r) ==
    obs' = [obs EXCEPT !.failedAt = IF loops'[r].pc = "select" THEN loops[r].since ELSE @]

CycleOver == obs' = [obs EXCEPT !.failedAt = NoFail]

NextPoll ==
    \/ AllIdle /\ StartCall /\ Unobserved
    \/ AllIdle /\ StopCall /\ Unobserved
    \/ \E k \in InFlight : StartCheck(k) /\ Unobserved
    \/ \E k \in InFlight : StartLocked(k) /\ Unobserved
    \/ \E k \in InFlight : StartGetLatestUID(k) /\ Unobserved
    \/ \E k \in InFlight : StartSpawn(k) /\ Unobserved
    \/ \E k \in InFlight : Stop(k) /\ Unobserved
    \/ \E r \in Runs : SelectDone(r) /\ Unobserved
    \/ \E r \in Runs : SelectTick(r) /\ Unobserved
    \/ \E r \in Runs : LoopExit(r) /\ CycleOver
    \/ \E r \in Runs : CheckFetch(r) /\ FetchObserved(r)
    \/ \E r \in Runs : CheckUpdate(r) /\ Unobserved
    \/ \E r \in Runs : \E contentsErr \in BOOLEAN : CheckNotify(r, contentsErr) /\ Unobserved
    \/ \E r \in Runs : CheckReturn(r) /\ CycleOver
    \/ Arrive /\ Unobserved
    \/ \E u \in UIDs : Expunge(u) /\ Unobserved

SpecPoll == InitPoll /\ [][NextPoll]_vars

\* ---- the poller driven directly: stopping and starting again ----
\* Start() and Stop() are called one after the other while the tick loop runs, and
\* the outcome of the last Stop() and the messages that arrived while the poller was
\* idle after a Stop() are recorded.
InitRestart == Init /\ mode = "direct" /\ broadcaster

PollerIdle ==
    /\ \A r \in Runs : ~Alive(r)
    /\ \A k \in InFlight : k.pc # "start_spawn"

StopObserved ==
    obs' = [obs EXCEPT !.lastStop = IF cancelFunc # NoOne THEN "cancelled" ELSE "noop"]

ArriveObserved ==
    obs' = [obs EXCEPT !.missed = IF PollerIdle /\ obs.lastStop # "none"
                                  THEN @ \cup {uidNext} ELSE @]

NextRestart ==
    \/ AllIdle /\ StartCall /\ Unobserved
    \/ AllIdle /\ StopCall /\ Unobserved
    \/ \E k \in InFlight : StartCheck(k) /\ Unobserved
    \/ \E k \in InFlight : StartLocked(k) /\ Unobserved
    \/ \E k \in InFlight : StartGetLatestUID(k) /\ Unobserved
    \/ \E k \in InFlight : StartSpawn(k) /\ Unobserved
    \/ \E k \in InFlight : Stop(k) /\ StopObserved
    \/ \E r \in Runs : SelectDone(r) /\ Unobserved
    \/ \E r \in Runs : SelectTick(r) /\ Unobserved
    \/ \E r \in Runs : LoopExit(r) /\ Unobserved
    \/ \E r \in Runs : CheckFetch(r) /\ Unobserved
    \/ \E r \in Runs : CheckUpdate(r) /\ Unobserved
    \/ \E r \in Runs : CheckNotify(r, FALSE) /\ Unobserved
    \/ \E r \in Runs : CheckReturn(r) /\ Unobserved
    \/ Arrive /\ ArriveObserved
    \/ \E u \in UIDs : Expunge(u) /\ Unobserved

SpecRestart == InitRestart /\ [][NextRestart]_vars

\* ---- stopping for good ----
\* Start() and Stop() are called one after the other; once a Stop() has run or main
\* has cancelled the parent context no further Start() is called. Every gateway call
\* of a poll cycle returns and the loop goroutine keeps being scheduled (weak
\* fairness of its steps); a select whose context is Done does not take the tick
\* case forever (strong fairness of the Done case: ticks are an interval apart and
\* select chooses among ready cases at random).
InitStop == Init /\ mode = "direct" /\ broadcaster

NoLaterStart == obs.lastStop = "none" /\ ParentCtx \notin cancelled

NextStop ==
    \/ AllIdle /\ NoLaterStart /\ StartCall /\ Unobserved
    \/ AllIdle /\ StopCall /\ Unobserved
    \/ \E k \in InFlight : StartCheck(k) /\ Unobserved
    \/ \E k \in InFlight : StartLocked(k) /\ Unobserved
    \/ \E k \in InFlight : StartGetLatestUID(k) /\ Unobserved
    \/ \E k \in InFlight : StartSpawn(k) /\ Unobserved
    \/ \E k \in InFlight : Stop(k) /\ StopObserved
    \/ ParentCancel /\ Unobserved
    \/ \E r \in Runs : SelectDone(r) /\ Unobserved
    \/ \E r \in Runs : SelectTick(r) /\ Unobserved
    \/ \E r \in Runs : LoopExit(r) /\ Unobserved
    \/ \E r \in Runs : CheckFetch(r) /\ Unobserved
    \/ \E r \in Runs : CheckUpdate(r) /\ Unobserved
    \/ \E r \in Runs : CheckNotify(r, FALSE) /\ Unobserved
    \/ \E r \in Runs : CheckReturn(r) /\ Unobserved
    \/ Arrive /\ Unobserved
    \/ \E u \in UIDs : Expunge(u) /\ Unobserved

LoopFairness ==
    \A r \in Runs :
        /\ SF_vars(SelectDone(r) /\ Unobserved)
        /\ WF_vars(LoopExit(r) /\ Unobserved)
        /\ WF_vars(CheckFetch(r) /\ Unobserved)
        /\ WF_vars(CheckUpdate(r) /\ Unobserved)
        /\ WF_vars(CheckNotify(r, FALSE) /\ Unobserved)
        /\ WF_vars(CheckReturn(r) /\ Unobserved)

SpecStop == InitStop /\ [][NextStop]_vars /\ LoopFairness

\* ======================= the claims =======================

\* every tracker call has returned and no cancelled loop is still on its way out
LifecycleQuiescent == mode = "multi" /\ broadcaster /\ AllIdle /\ StoppingLoops = {}

\* C1: in multi-client mode, once all OnClientConnected / OnClientDisconnected calls
\* have returned and the system is quiescent, the tick loop is running if and only
\* if the client count is at least 1.
C1_RunningIffClients ==
    LifecycleQuiescent => ((clientCount >= 1) <=> (RunningLoops # {}))

\* C2: the count update and the start/stop decision of a tracker call are one atomic
\* unit: between a call's clientCount.Add and its decision under t.mu no other call
\* changes the count, so the count the call decides on is the tracker's count.
C2_CountAndDecisionAtomic ==
    \A k \in InFlight : k.pc \in {"conn_lock", "disc_lock"} => clientCount = k.count

\* C3: once Stop() has returned (every call has returned, the loop's context is
\* cancelled) and no Start() follows, the stopped tick loop begins no further poll
\* cycle, even if a tick is pending in ticker.C.
C3_NoCycleAfterStop ==
    [][\A r \in Runs :
          (AllIdle /\ r \in cancelled /\ loops[r].pc = "select") => loops'[r].pc # "fetch"]_vars

\* C4: Start() called again without an intervening Stop(), sequentially or from a
\* concurrent caller, is a no-op: there is never more than one tick loop, c.running
\* is set exactly while there is one, and while there is one no Start() gets as far
\* as querying the mailbox, re-initialising the watermark or spawning a loop.
C4_SecondStartNoOp ==
    /\ Cardinality({r \in Runs : Alive(r)}) <= 1
    /\ running <=> (\E r \in Runs : Alive(r))
    /\ running => \A k \in InFlight : k.pc \notin {"start_getuid", "start_spawn"}

\* C4 witness: with a loop running and not cancelled, a later Start() has returned
\* early and every call has returned.
C4_Witness ==
    /\ RunningLoops # {}
    /\ StoppingLoops = {}
    /\ lastCall = "StartNoOp"
    /\ AllIdle

\* C5: a Start() that begins after the last Stop() took effect (the poller idle, or
\* the cancelled loop still on its way out) takes effect: once every call has
\* returned and the old loop has exited, a tick loop is running.
C5_StartTakesEffect ==
    (broadcaster /\ AllIdle /\ lastCall \in {"Start", "StartNoOp"} /\ StoppingLoops = {})
        => RunningLoops # {}

\* the UID a notification is about, and the notifications of a run for a UID
SentUID(i) == SscanfUint(sent[i].params.email_id)

SentFor(r, u) == {i \in 1..Len(sent) : sent[i].run = r /\ SentUID(i) = u}

EmailUIDs(r) == {SscanfUint(loops[r].newEmails[i].ID) : i \in 1..Len(loops[r].newEmails)}

\* C6: a poll cycle that starts with watermark w hands the broadcaster notifications
\* only for UIDs strictly greater than w, whatever the range fetch returned.
C6_OnlyAboveWatermark ==
    \A i \in 1..Len(sent) : SentUID(i) > sent[i].since

\* C6 witness: a cycle has finished whose range fetch returned a message at or below
\* the watermark the cycle started with (the last message of INBOX).
C6_Witness ==
    \E r \in Runs :
        /\ loops[r].pc = "done"
        /\ \E u \in loops[r].raw : u <= loops[r].since
        /\ \A i \in 1..Len(sent) : sent[i].run = r => SentUID(i) > loops[r].since

\* C7: within one run every message is notified at most once, and at the end of a
\* successful cycle every message that was in INBOX above the cycle's watermark has
\* been notified exactly once and the watermark is the highest UID returned (the
\* cycle's own watermark when nothing was returned).
C7_ExactlyOncePerRun ==
    /\ \A i, j \in 1..Len(sent) :
          (sent[i].run = sent[j].run /\ sent[i].params.email_id = sent[j].params.email_id) => i = j
    /\ \A r \in Runs : loops[r].pc = "done" =>
          /\ \A u \in loops[r].snap : u > loops[r].since => Cardinality(SentFor(r, u)) = 1
          /\ lastUID = Max({loops[r].since} \cup EmailUIDs(r))

\* C7 witness: a later cycle of the run has finished while a message the run already
\* notified is still in INBOX, and that message has one notification.
C7_Witness ==
    \E r \in Runs : \E u \in UIDs :
        /\ loops[r].pc = "done"
        /\ u \in loops[r].snap
        /\ u <= loops[r].since
        /\ Cardinality(SentFor(r, u)) = 1
        /\ \E v \in loops[r].snap : v > loops[r].since

\* C8: within one run the watermark never decreases: every step other than a
\* Start() initialising the watermark and spawning the loop of a new run leaves
\* lastUID at least as high.
C8_WatermarkMonotone ==
    [][(\A r \in Runs : Alive(r)' => Alive(r)) => lastUID' >= lastUID]_vars

\* C8 witness: a cycle is handling a message whose UID is below the current watermark
\* (the gateway returned the messages out of UID order).
C8_Witness ==
    \E r \in Runs :
        /\ loops[r].pc = "notify"
        /\ SscanfUint(loops[r].newEmails[loops[r].idx].ID) < lastUID

\* C9: at every point of a poll cycle the watermark covers only messages whose
\* notification was already handed to the broadcaster, so that a cycle interrupted
\* after N of M messages leaves messages N+1..M to the next cycle.
C9_WatermarkCoversOnlyNotified ==
    \A r \in Runs : loops[r].pc \in {"update", "notify"} =>
        \A u \in EmailUIDs(r) : u <= lastUID => SentFor(r, u) # {}

\* the highest UID of a mailbox, 0 when it is empty
HighestUID(mbox) == IF mbox = {} THEN 0 ELSE Max(mbox)

\* C10: a Start() whose mailbox query succeeds takes the mailbox's highest UID (0 for
\* an empty mailbox) as the watermark of the run it spawns, and the run never
\* notifies a message at or below it, that is, a message present at Start.
C10_StartWatermark ==
    [][/\ (startUID' # startUID /\ startUID'.ok) => startUID'.uid = HighestUID(mailbox)
       /\ \A r \in Runs : (~Alive(r) /\ Alive(r)') =>
             /\ loops'[r].pc = "select"
             /\ loops'[r].startOk = startUID.ok
             /\ loops'[r].startW = startUID.uid
             /\ lastUID' = startUID.uid
       /\ \A r \in Runs : loops'[r].startOk =>
            \A i \in 1..Len(sent') : sent'[i].run = r => SscanfUint(sent'[i].params.email_id) > loops'[r].startW
      ]_vars

\* C10 witness: a run that began with a non-empty mailbox has finished a cycle that
\* found the message it began with still in INBOX, and has not notified it.
C10_Witness ==
    \E r \in Runs :
        /\ loops[r].startOk
        /\ loops[r].startW >= FirstUID
        /\ loops[r].pc = "done"
        /\ loops[r].startW \in loops[r].snap
        /\ SentFor(r, loops[r].startW) = {}

\* the notifications of run r for UID u in a log of notifications
NotifiedIn(log, r, u) ==
    {i \in 1..Len(log) : log[i].run = r /\ SscanfUint(log[i].params.email_id) = u}

\* C11: when the highest-UID query of Start() fails, startup goes on: the run begins
\* with watermark 0 and c.running set, the watermark stays 0 until the run handles
\* its first message, and the first cycle that succeeds notifies every message that
\* is in the mailbox.
C11_StartSurvivesQueryFailure ==
    \A r \in Runs : (Alive(r) /\ ~loops[r].startOk) =>
        /\ running
        /\ loops[r].startW = 0
        /\ (NotifiedIn(sent, r, lastUID) = {} /\ loops[r].pc # "notify") => lastUID = 0
        /\ (loops[r].pc = "done" /\ loops[r].since = 0) =>
              \A u \in loops[r].snap : Cardinality(SentFor(r, u)) = 1

\* C11 witness: a run whose highest-UID query failed has finished a cycle from
\* watermark 0 over a non-empty mailbox and notified all of it.
C11_Witness ==
    \E r \in Runs :
        /\ ~loops[r].startOk
        /\ loops[r].pc = "done"
        /\ loops[r].since = 0
        /\ loops[r].snap # {}
        /\ \A u \in loops[r].snap : SentFor(r, u) # {}

\* C12: a poll cycle whose new-message query fails emits nothing, leaves the
\* watermark, c.running and the loop's context alone and returns to the select; every
\* cycle queries from the current watermark; and the cycle that succeeds after a
\* failure at watermark w notifies every message above w that is in the mailbox.
C12_FailedCycleRetries ==
    [][\A r \in Runs :
          /\ (loops[r].pc = "fetch" /\ loops'[r].pc = "select") =>
                (sent' = sent /\ lastUID' = lastUID /\ running' /\ cancelled' = cancelled)
          /\ loops'[r].pc = "fetch" => loops'[r].since = lastUID'
          /\ (loops'[r].pc = "done" /\ obs'.failedAt # NoFail) =>
                /\ obs'.failedAt = loops'[r].since
                /\ \A u \in loops'[r].snap :
                      u > loops'[r].since => NotifiedIn(sent', r, u) # {}
      ]_vars

\* C12 witness: after a failed cycle at watermark w the next cycle of the run has
\* queried from w again and notified a message above w.
C12_Witness ==
    \E r \in Runs :
        /\ loops[r].pc = "done"
        /\ obs.failedAt = loops[r].since
        /\ \E u \in loops[r].snap : u > loops[r].since /\ SentFor(r, u) # {}

\* C13: when GetEmailContents fails for a new message its notification is emitted all
\* the same, with preview "", and the cycle goes on: every message handled so far has
\* its notification, and at the end of the cycle every message the query returned.
C13_EmptyPreviewOnBodyFailure ==
    /\ \A i \in 1..Len(sent) : sent[i].bodyErr => sent[i].params.preview = <<>>
    /\ \A r \in Runs : loops[r].pc \in {"update", "notify", "done"} =>
          \A j \in 1..Len(loops[r].newEmails) :
              (j < loops[r].idx) =>
                  \E i \in 1..Len(sent) :
                      /\ sent[i].run = r
                      /\ sent[i].since = loops[r].since
                      /\ sent[i].params.email_id = loops[r].newEmails[j].ID

\* C13 witness: a cycle has finished in which the body fetch of a message failed and
\* a later message of the same cycle was notified too.
C13_Witness ==
    \E r \in Runs : \E i, j \in 1..Len(sent) :
        /\ loops[r].pc = "done"
        /\ i < j
        /\ sent[i].run = r /\ sent[j].run = r
        /\ sent[i].since = loops[r].since /\ sent[j].since = loops[r].since
        /\ sent[i].bodyErr
        /\ sent[i].params.preview = <<>>

\* C14: from zero clients and with the hooks called one after the other: after
\* connect, connect, disconnect the tick loop is running and Stop() was never called;
\* after connect, disconnect, disconnect no tick loop is running and Stop() was
\* called exactly once, by the first disconnect, and cancelled the loop.
C14_RefCountedLifecycle ==
    /\ (AllIdle /\ obs.events = <<"connect", "connect", "disconnect">>) =>
          (RunningLoops # {} /\ running /\ obs.stopCalls = 0)
    /\ (AllIdle /\ obs.events = <<"connect", "disconnect", "disconnect">>) =>
          (RunningLoops = {} /\ cancelFunc = NoOne /\ obs.stopCalls = 1)

\* C14 witness: connect, disconnect, disconnect have returned, with one Stop() call.
C14_Witness ==
    /\ AllIdle
    /\ obs.events = <<"connect", "disconnect", "disconnect">>
    /\ obs.stopCalls = 1
    /\ obs.lastStop = "cancelled"

\* C15: the client count is never negative (a disconnect at count 0 leaves it at 0).
C15_CountNonNegative == clientCount >= 0

\* C16: within one poll cycle the notifications are handed to the broadcaster in
\* increasing UID order.
C16_IncreasingUIDOrder ==
    \A i, j \in 1..Len(sent) :
        (i < j /\ sent[i].run = sent[j].run /\ sent[i].since = sent[j].since)
            => SentUID(i) < SentUID(j)

\* C17: without a broadcaster no Start() gets past its first check: the mailbox is
\* never queried, the watermark never set, no tick loop started, c.running stays
\* false and nothing is ever notified, in both deployment modes.
C17_NoBroadcasterNoStart ==
    ~broadcaster =>
        /\ ~running
        /\ lastUID = 0
        /\ sent = <<>>
        /\ startUID = NoStart
        /\ cancelFunc = NoOne
        /\ \A r \in Runs : loops[r] = NoLoop
        /\ \A k \in InFlight : k.pc \notin {"start_lock", "start_getuid", "start_spawn"}

\* C17 witness: without a broadcaster a Start() has returned, in multi-client mode.
C17_Witness ==
    /\ ~broadcaster
    /\ mode = "multi"
    /\ lastCall = "StartNoOp"
    /\ AllIdle
    /\ clientCount >= 1

\* C18: Stop() never changes the watermark and leaves no cancel function behind, and
\* a Stop() that finds none (the poller never started, or already stopped) changes
\* nothing of the checker.
C18_StopIdempotent ==
    [][\A k \in InFlight : (k.pc = "stop" /\ calls' = Returned(k)) =>
          /\ lastUID' = lastUID
          /\ cancelFunc' = NoOne
          /\ cancelFunc = NoOne =>
                UNCHANGED <<running, cancelled, loops, startUID, cancelMu, sent, mailVars>>
      ]_vars

\* C18 witness: a Stop() cancelled the loop and, before the loop has exited, a second
\* Stop() has returned having found nothing to cancel.
C18_Witness ==
    /\ AllIdle
    /\ lastCall = "Stop"
    /\ obs.lastStop = "noop"
    /\ StoppingLoops # {}

\* C19 as stated: no run notifies a message that arrived while the poller was idle
\* after a Stop().
C19_MissedNeverNotified ==
    \A r \in Runs : Alive(r) => \A u \in obs.missed : SentFor(r, u) = {}

\* C19, amended: a run whose highest-UID query succeeded begins at or above every
\* message that arrived while the poller was idle after a Stop() and is still in the
\* mailbox, whatever the watermark was before, and never notifies such a message.
C19_MissedNeverNotifiedAfterQuery ==
    \A r \in Runs : (Alive(r) /\ loops[r].startOk) =>
        \A u \in obs.missed :
            /\ SentFor(r, u) = {}
            /\ u \in mailbox => u <= loops[r].startW

\* C19 witness: a run started after a Stop() has finished a cycle that found a
\* message that arrived while the poller was idle, and has not notified it.
C19_Witness ==
    \E r \in Runs : \E u \in obs.missed :
        /\ loops[r].startOk
        /\ loops[r].pc = "done"
        /\ u \in loops[r].snap
        /\ SentFor(r, u) = {}

\* the decimal strings without a leading zero
IsDecimal(s) ==
    /\ Len(s) >= 1
    /\ \A i \in 1..Len(s) : \E d \in 1..10 : Digits[d] = s[i]
    /\ Len(s) > 1 => s[1] # "0"

\* C20: every notification has method "new_email" and params with exactly the fields
\* email_id, from, subject, received_at and preview, email_id being the decimal
\* string of the UID of a message the cycle fetched.
C20_PayloadShape ==
    \A i \in 1..Len(sent) :
        /\ sent[i].method = "new_email"
        /\ DOMAIN sent[i].params = {"email_id", "from", "subject", "received_at", "preview"}
        /\ IsDecimal(sent[i].params.email_id)

\* the tick loops that are inside checkForNewEmails
InCycle == {r \in Runs : loops[r].pc \in {"fetch", "update", "notify", "done"}}

\* C21: under any interleaving of Start() and Stop() calls at most one poll cycle
\* executes at a time; Start() spawns a loop and re-initialises the watermark only
\* when no tick loop is alive; and while a poll cycle is in flight the watermark is
\* written by that cycle only.
C21_NoOverlapNoOverwrite ==
    [][/\ Cardinality(InCycle') <= 1
       /\ (\E r \in Runs : ~Alive(r) /\ Alive(r)') => \A q \in Runs : ~Alive(q)
       /\ \A r \in InCycle : lastUID' # lastUID => (loops[r].pc = "update" /\ loops'[r].pc = "notify")
      ]_vars

\* C21 witness: a Start() that passed its first check is waiting for cancelMu while
\* the loop another Start() spawned, since cancelled by a Stop(), is inside a poll
\* cycle that has advanced the watermark.
C21_Witness ==
    \E r \in InCycle :
        /\ r \in cancelled
        /\ loops[r].pc = "notify"
        /\ lastUID > loops[r].since
        /\ \E k \in InFlight : k.pc = "start_lock"

\* C22: once a Stop() has run or the parent context is cancelled, and no Start() is
\* called afterwards, the tick loop eventually exits and c.running eventually becomes
\* false and stays false; c.running becomes true only when a Start() spawns a loop.
C22_EventuallyStopped ==
    /\ [](~NoLaterStart => <>[](~running /\ \A r \in Runs : ~Alive(r)))
    /\ [][(running' /\ ~running) => \E r \in Runs : ~Alive(r) /\ Alive(r)']_vars

\* C22 witness: Stop() has returned having cancelled the loop, and c.running is still
\* true because the loop has not exited yet.
C22_Witness ==
    /\ AllIdle
    /\ lastCall = "Stop"
    /\ obs.lastStop = "cancelled"
    /\ running
    /\ StoppingLoops # {}

====
